---------------------------- MODULE Spec2Model ----------------------------
(***************************************************************************)
(* Model of api/index.js: the POST /bfhl dispatcher/validator, the         *)
(* operation library (fibonacci, filterPrimes, lcmArray, hcfArray, askAI)  *)
(* and the response envelope.                                              *)
(*                                                                         *)
(* JSON values are tagged records [t, v]; strings that the code inspects   *)
(* (the AI question, the model's text) are sequences of one-character      *)
(* strings so that trim / split / replace are computed, not assumed.       *)
(* JavaScript Numbers are modelled as exact integers: every value the      *)
(* bounded inputs produce is far below 2^53, where doubles are exact.      *)
(* The middleware in front of the routes (helmet, cors, express.json, the  *)
(* rate limiter) is outside the model.                                     *)
(***************************************************************************)
EXTENDS Integers, Sequences, FiniteSets, TLC

VARIABLES
    pc,         \* "idle" | "askAI" (handler suspended in await askAI) | "done"
    req,        \* the request being handled: [method, path, body]
    resp,       \* the response emitted: [status, body]; status 0 = none yet
    ran,        \* names of the validators / operations the handler invoked
    thrown,     \* the exception caught by the handler's outer catch (or NoError)
    modelIdx,   \* askAI: index in models of the attempt in progress
    lastError,  \* askAI: its lastError local
    attempts,   \* askAI: the attempts made so far, in order
    aiOutcome,  \* askAI: how the call ended: [kind, v, err]
    logged,     \* console.error output of the current request
    input,      \* direct call of an operation: its argument [k, n, xs]
    ret         \* direct call of an operation: [fn, v]

vars == <<pc, req, resp, ran, thrown, modelIdx, lastError, attempts,
          aiOutcome, logged, input, ret>>

(***************************************************************************)
(* Bounds of the model.                                                    *)
(***************************************************************************)
MaxFibN == 45       \* largest n passed to fibonacci directly
MaxElem == 4        \* direct calls: array elements range over -MaxElem..MaxElem
MaxLen == 3         \* direct calls: longest array
MaxWide == 30       \* direct calls: one-element arrays range over -MaxWide..MaxWide
MaxReqInt == 5      \* requests: integer values range over -1..MaxReqInt
MaxReqArrLen == 2   \* requests: longest array value
MaxQuestionLen == 2 \* requests: longest string value
MaxTextLen == 3     \* longest text a generative model returns
MaxProbeKeys == 3   \* most recognized keys carried by one request

(***************************************************************************)
(* JSON values.                                                            *)
(***************************************************************************)
JInt(i) == [t |-> "int", v |-> i]          \* a Number with Number.isInteger
JNum == [t |-> "num", v |-> 0]             \* a non-integer Number, e.g. 1.5
JStr(s) == [t |-> "str", v |-> s]
JArr(s) == [t |-> "arr", v |-> s]
JObj(f) == [t |-> "obj", v |-> f]
JNull == [t |-> "null", v |-> 0]
JUndefined == [t |-> "undefined", v |-> 0]

Abs(x) == IF x < 0 THEN -x ELSE x

\* JavaScript's % : the result takes the sign of the dividend.
JsRem(a, b) == IF a >= 0 THEN a % Abs(b) ELSE -((-a) % Abs(b))

RECURSIVE SeqsUpTo(_, _)
SeqsUpTo(S, n) ==
    IF n = 0 THEN {<<>>}
    ELSE LET shorter == SeqsUpTo(S, n - 1)
         IN  shorter \cup {Append(s, e) : s \in {q \in shorter : Len(q) = n - 1}, e \in S}

(***************************************************************************)
(* Constants of the program.                                               *)
(***************************************************************************)
OFFICIAL_EMAIL == "lavish2052.be23@chitkara.edu.in"

validKeys == <<"fibonacci", "prime", "lcm", "hcf", "AI">>

models == <<"gemini-2.5-flash", "gemini-2.0-flash", "gemini-2.0-flash-lite">>

(***************************************************************************)
(* Response envelope.                                                      *)
(***************************************************************************)
successResponse_noEmail(data) == [is_success |-> TRUE, data |-> data]

successResponse(data) ==
    [is_success |-> TRUE, official_email |-> OFFICIAL_EMAIL, data |-> data]

errorResponse(message) ==
    [is_success |-> FALSE, official_email |-> OFFICIAL_EMAIL, error |-> message]

(***************************************************************************)
(* Operation library.                                                      *)
(***************************************************************************)
RECURSIVE fibLoop(_, _, _)
\* the for loop of fibonacci; i is the JavaScript index, so Len(series) = i
fibLoop(series, i, n) ==
    IF i < n
    THEN fibLoop(Append(series, series[i] + series[i - 1]), i + 1, n)
    ELSE series

fibonacci_offByOne(n) ==
    IF n <= 0 THEN <<>>
    ELSE IF n = 1 THEN <<0>>
    ELSE fibLoop(<<0, 1>>, 2, n + 1)

fibonacci(n) ==
    IF n <= 0 THEN <<>>
    ELSE IF n = 1 THEN <<0>>
    ELSE fibLoop(<<0, 1>>, 2, n)

RECURSIVE isPrimeLoop(_, _)
\* for (i = 3; i <= Math.sqrt(num); i += 2): on integers i <= sqrt(num)
\* is i*i <= num
isPrimeLoop(num, i) ==
    IF i * i <= num
    THEN IF JsRem(num, i) = 0 THEN FALSE ELSE isPrimeLoop(num, i + 2)
    ELSE TRUE

isPrime_strictBound(num) ==
    LET RECURSIVE loop(_)
        loop(i) == IF i * i < num
                   THEN IF JsRem(num, i) = 0 THEN FALSE ELSE loop(i + 2)
                   ELSE TRUE
    IN  IF num < 2 THEN FALSE
        ELSE IF num = 2 THEN TRUE
        ELSE IF JsRem(num, 2) = 0 THEN FALSE
        ELSE loop(3)

isPrime(num) ==
    IF num < 2 THEN FALSE
    ELSE IF num = 2 THEN TRUE
    ELSE IF JsRem(num, 2) = 0 THEN FALSE
    ELSE isPrimeLoop(num, 3)

filterPrimes(arr) == SelectSeq(arr, isPrime)

RECURSIVE gcdLoop(_, _)
\* while (b) { [a, b] = [b, a % b]; }
gcdLoop(a, b) == IF b # 0 THEN gcdLoop(b, JsRem(a, b)) ELSE a

gcd(a, b) == gcdLoop(Abs(a), Abs(b))

lcm_noAbs(a, b) ==
    IF a = 0 \/ b = 0 THEN 0 ELSE (a * b) \div gcd(a, b)

lcm_absFirstOnly(a, b) ==
    IF a = 0 \/ b = 0 THEN 0 ELSE (Abs(a) * b) \div gcd(a, b)

\* Math.abs(a * b) / gcd(a, b): gcd(a, b) divides a * b, so the quotient of
\* the two doubles is the exact integer quotient
lcm(a, b) ==
    IF a = 0 \/ b = 0 THEN 0 ELSE Abs(a * b) \div gcd(a, b)

RECURSIVE reduceLcm(_, _, _)
reduceLcm(arr, i, acc) ==
    IF i > Len(arr) THEN acc ELSE reduceLcm(arr, i + 1, lcm(acc, arr[i]))

\* arr.reduce((acc, val) => lcm(acc, val), 1)
lcmArray(arr) == reduceLcm(arr, 1, 1)

RECURSIVE reduceGcd(_, _, _)
reduceGcd(arr, i, acc) ==
    IF i > Len(arr) THEN acc ELSE reduceGcd(arr, i + 1, gcd(acc, arr[i]))

\* arr.reduce((acc, val) => gcd(acc, val)): no initial value, so the first
\* element is the initial accumulator and the callback first runs on the
\* second element. Callers pass a non-empty array.
hcfArray(arr) == reduceGcd(arr, 2, arr[1])

(***************************************************************************)
(* Direct calls of the operation library on bounded inputs.                *)
(***************************************************************************)
Elems == (-MaxElem)..MaxElem

\* the arrays the specification's examples use
ExampleArrays == {<<1, 2, 3, 4, 5, 6>>, <<4, 6>>, <<12, 18>>}

NumInput(n) == [k |-> "n", n |-> n, xs |-> <<>>]
ArrInput(xs) == [k |-> "xs", n |-> 0, xs |-> xs]

\* one-element arrays over a wider range, so that isPrime's trial-division loop
\* meets odd composites (9, 15, 21, 25, 27)
WideArrays == {<<x>> : x \in (-MaxWide)..MaxWide}

OpsInputs ==
    {NumInput(n) : n \in (-2)..MaxFibN}
    \cup {ArrInput(xs) : xs \in SeqsUpTo(Elems, MaxLen) \cup WideArrays \cup ExampleArrays}

NoRet == [fn |-> "none", v |-> JNull]
NoError == [name |-> "null", message |-> ""]
NoResp == [status |-> 0, body |-> <<>>]
NoReq == [method |-> "none", path |-> "none", body |-> JUndefined]
NoOutcome == [kind |-> "none", v |-> <<>>, err |-> NoError]
NoInput == [k |-> "none", n |-> 0, xs |-> <<>>]

handlerVars == <<pc, req, resp, ran, thrown, modelIdx, lastError, attempts,
                 aiOutcome, logged>>

HandlerIdle ==
    /\ pc = "idle"
    /\ req = NoReq
    /\ resp = NoResp
    /\ ran = {}
    /\ thrown = NoError
    /\ modelIdx = 0
    /\ lastError = NoError
    /\ attempts = <<>>
    /\ aiOutcome = NoOutcome
    /\ logged = <<>>

OpsInit ==
    /\ HandlerIdle
    /\ input \in OpsInputs
    /\ ret = NoRet

CallFibonacci ==
    /\ input.k = "n"
    /\ ret' = [fn |-> "fibonacci", v |-> fibonacci(input.n)]
    /\ UNCHANGED <<handlerVars, input>>

CallFilterPrimes ==
    /\ input.k = "xs"
    /\ ret' = [fn |-> "filterPrimes", v |-> filterPrimes(input.xs)]
    /\ UNCHANGED <<handlerVars, input>>

CallLcmArray ==
    /\ input.k = "xs"
    /\ ret' = [fn |-> "lcmArray", v |-> lcmArray(input.xs)]
    /\ UNCHANGED <<handlerVars, input>>

\* hcfArray throws on an empty array (reduce with no initial value); the
\* handler only calls it after isValidIntegerArray, so neither do we
CallHcfArray ==
    /\ input.k = "xs"
    /\ Len(input.xs) > 0
    /\ ret' = [fn |-> "hcfArray", v |-> hcfArray(input.xs)]
    /\ UNCHANGED <<handlerVars, input>>

OpsNext == CallFibonacci \/ CallFilterPrimes \/ CallLcmArray \/ CallHcfArray

OpsSpec == OpsInit /\ [][OpsNext]_vars

(***************************************************************************)
(* Strings: askAI's post-processing and isNonEmptyString.                  *)
(***************************************************************************)
Chars == {"a", "1", " ", "?"}

isWhitespace(c) == c = " "              \* \s
isAlphanumeric(c) == c \in {"a", "1"}   \* [a-zA-Z0-9]

RECURSIVE trimStart(_)
trimStart(s) ==
    IF Len(s) > 0 /\ isWhitespace(Head(s)) THEN trimStart(Tail(s)) ELSE s

RECURSIVE trimEnd(_)
trimEnd(s) ==
    IF Len(s) > 0 /\ isWhitespace(s[Len(s)])
    THEN trimEnd(SubSeq(s, 1, Len(s) - 1))
    ELSE s

\* String.prototype.trim
trim(s) == trimEnd(trimStart(s))

RECURSIVE splitLoop(_, _, _)
splitLoop(s, cur, out) ==
    IF Len(s) = 0 THEN Append(out, cur)
    ELSE IF isWhitespace(Head(s))
         THEN splitLoop(trimStart(s), <<>>, Append(out, cur))
         ELSE splitLoop(Tail(s), Append(cur, Head(s)), out)

\* s.split(/\s+/): the pieces between maximal runs of whitespace
split(s) == splitLoop(s, <<>>, <<>>)

\* piece.replace(/[^a-zA-Z0-9]/g, "")
stripNonAlphanumeric(s) == SelectSeq(s, isAlphanumeric)

\* response.text().trim().split(/\s+/)[0].replace(/[^a-zA-Z0-9]/g, "")
firstWord(text) == stripNonAlphanumeric(split(trim(text))[1])

(***************************************************************************)
(* Validation helpers.                                                     *)
(***************************************************************************)
isValidInteger(val) == val.t = "int"

isValidIntegerArray(val) ==
    /\ val.t = "arr"
    /\ Len(val.v) > 0
    /\ \A i \in 1..Len(val.v) : val.v[i].t = "int"

isNonEmptyString(val) == val.t = "str" /\ Len(trim(val.v)) > 0

\* the numbers of a validated integer array, and back
Numbers(val) == [i \in 1..Len(val.v) |-> val.v[i].v]
JIntArr(xs) == JArr([i \in 1..Len(xs) |-> JInt(xs[i])])

(***************************************************************************)
(* POST /bfhl.                                                             *)
(***************************************************************************)
MsgBody == "Request body must be a valid JSON object."
MsgExactlyOne == "Request must contain exactly one of: fibonacci, prime, lcm, hcf, AI."
MsgFibonacci == "'fibonacci' must be a non-negative integer."
MsgPrime == "'prime' must be a non-empty array of integers."
MsgLcm == "'lcm' must be a non-empty array of integers."
MsgHcf == "'hcf' must be a non-empty array of integers."
MsgAI == "'AI' must be a non-empty string question."
MsgAIUnavailable == "AI service is temporarily unavailable. Please try again later."
MsgInternal == "Internal server error."
MsgNotFound == "Route not found."

\* calling body.hasOwnProperty when the body's own "hasOwnProperty" property
\* (any JSON value) shadows Object.prototype.hasOwnProperty
HasOwnPropertyTypeError ==
    [name |-> "TypeError", message |-> "body.hasOwnProperty is not a function"]

AllModelsFailedError == [name |-> "Error", message |-> "All AI models failed."]

\* !body
isFalsy(body) ==
    \/ body.t \in {"undefined", "null"}
    \/ (body.t = "int" /\ body.v = 0)
    \/ (body.t = "str" /\ Len(body.v) = 0)

\* the guard of the handler, negated:
\* !(!body || typeof body !== "object" || Array.isArray(body))
isObjectBody(body) ==
    /\ ~isFalsy(body)
    /\ body.t \in {"obj", "arr", "null"}
    /\ body.t # "arr"

\* body.hasOwnProperty resolves to Object.prototype.hasOwnProperty
hasOwnPropertyCallable(body) == "hasOwnProperty" \notin DOMAIN body.v

isOwnKey(body, k) == k \in DOMAIN body.v

\* validKeys.filter((k) => body.hasOwnProperty(k))
presentKeys(body) == SelectSeq(validKeys, LAMBDA k : isOwnKey(body, k))

Respond(status, body, ranSet) ==
    [kind |-> "respond", status |-> status, body |-> body, ran |-> ranSet,
     err |-> NoError]

Suspend(ranSet) ==
    [kind |-> "await", status |-> 0, body |-> <<>>, ran |-> ranSet, err |-> NoError]

Throw(e) ==
    [kind |-> "throw", status |-> 0, body |-> <<>>, ran |-> {}, err |-> e]

\* the branch of the handler for the single present key
dispatchKey(key, value) ==
    IF key = "fibonacci" THEN
        IF ~isValidInteger(value) \/ value.v < 0
        THEN Respond(400, errorResponse(MsgFibonacci), {"isValidInteger"})
        ELSE Respond(200, successResponse(JIntArr(fibonacci(value.v))),
                     {"isValidInteger", "fibonacci"})
    ELSE IF key = "prime" THEN
        IF ~isValidIntegerArray(value)
        THEN Respond(400, errorResponse(MsgPrime), {"isValidIntegerArray"})
        ELSE Respond(200, successResponse(JIntArr(filterPrimes(Numbers(value)))),
                     {"isValidIntegerArray", "filterPrimes"})
    ELSE IF key = "lcm" THEN
        IF ~isValidIntegerArray(value)
        THEN Respond(400, errorResponse(MsgLcm), {"isValidIntegerArray"})
        ELSE Respond(200, successResponse(JInt(lcmArray(Numbers(value)))),
                     {"isValidIntegerArray", "lcmArray"})
    ELSE IF key = "hcf" THEN
        IF ~isValidIntegerArray(value)
        THEN Respond(400, errorResponse(MsgHcf), {"isValidIntegerArray"})
        ELSE Respond(200, successResponse(JInt(hcfArray(Numbers(value)))),
                     {"isValidIntegerArray", "hcfArray"})
    ELSE \* key = "AI"
        IF ~isNonEmptyString(value)
        THEN Respond(400, errorResponse(MsgAI), {"isNonEmptyString"})
        ELSE Suspend({"isNonEmptyString", "askAI"})

\* the body of the handler's try block, up to its first response, throw or await
dispatch(body) ==
    IF ~isObjectBody(body) THEN Respond(400, errorResponse(MsgBody), {})
    ELSE IF ~hasOwnPropertyCallable(body) THEN Throw(HasOwnPropertyTypeError)
    ELSE LET present == presentKeys(body)
         IN  IF Len(present) = 0 THEN Respond(400, errorResponse(MsgExactlyOne), {})
             ELSE IF Len(present) > 1
                  THEN Respond(400, errorResponse(MsgExactlyOne), {})
                  ELSE dispatchKey(present[1], body.v[present[1]])

catchAiErr_leak(aiErr) == [status |-> 503, body |-> errorResponse(aiErr.message)]

\* catch (aiErr) { ...; return res.status(503).json(errorResponse(...)) }
catchAiErr(aiErr) == [status |-> 503, body |-> errorResponse(MsgAIUnavailable)]

\* catch (err) { ...; return res.status(500).json(errorResponse(...)) }
catchErr(err) == [status |-> 500, body |-> errorResponse(MsgInternal)]

LogLine(prefix, e) == [prefix |-> prefix, message |-> e.message]

(***************************************************************************)
(* Requests.                                                               *)
(***************************************************************************)
QuestionChars == {"a", " "}

ReqInts == {JInt(i) : i \in (-1)..MaxReqInt}
ReqStrings == {JStr(s) : s \in SeqsUpTo(QuestionChars, MaxQuestionLen)}
ReqArrays == {JArr(s) : s \in SeqsUpTo(ReqInts \cup {JNum, JNull}, MaxReqArrLen)}

\* values of the key of a single-operation request
Values == ReqInts \cup {JNum, JNull} \cup ReqStrings \cup ReqArrays

\* values of the keys of a request with several recognized keys: for every
\* key one value that passes its rule and values that fail it
ProbeValues ==
    {JInt(-1), JInt(5), JArr(<<JInt(2), JInt(3)>>), JStr(<<"a">>), JNull}

RecognizedKeys == {validKeys[i] : i \in 1..Len(validKeys)}

ExtraParts ==
    {[k \in S |-> JInt(1)] : S \in SUBSET {"foo", "hasOwnProperty"}}
    \cup {[k \in {"hasOwnProperty"} |-> JNull]}

RecognizedParts ==
    UNION {[S -> IF Cardinality(S) = 1 THEN Values ELSE ProbeValues] :
              S \in {T \in SUBSET RecognizedKeys : Cardinality(T) <= MaxProbeKeys}}

Merge(f, g) ==
    [k \in DOMAIN f \cup DOMAIN g |-> IF k \in DOMAIN f THEN f[k] ELSE g[k]]

ObjectBodies == {JObj(Merge(r, e)) : r \in RecognizedParts, e \in ExtraParts}

NonObjectBodies == {JUndefined, JArr(<<>>), JArr(<<JInt(1)>>)}

Bodies == ObjectBodies \cup NonObjectBodies

\* what the generative text service may return or throw
Texts == SeqsUpTo(Chars, MaxTextLen)

ServiceErrors ==
    {[name |-> "Error", message |-> "429 quota exceeded"],
     [name |-> "Error", message |-> "fetch failed"]}

Post(body) == [method |-> "POST", path |-> "/bfhl", body |-> body]

(***************************************************************************)
(* The handlers.                                                           *)
(***************************************************************************)
Init ==
    /\ HandlerIdle
    /\ input = NoInput
    /\ ret = NoRet

\* no request is being handled
Ready == pc = "idle"

\* app.post("/bfhl"): from the request to the response, or to the await of askAI
PostBfhl ==
    /\ Ready
    /\ \E body \in Bodies :
        LET r == dispatch(body)
        IN  /\ req' = Post(body)
            /\ ran' = r.ran
            /\ thrown' = r.err
            /\ IF r.kind = "respond" THEN
                   /\ resp' = [status |-> r.status, body |-> r.body]
                   /\ logged' = <<>>
                   /\ modelIdx' = 0
                   /\ pc' = "done"
               ELSE IF r.kind = "throw" THEN
                   /\ resp' = catchErr(r.err)
                   /\ logged' = <<LogLine("Unhandled error:", r.err)>>
                   /\ modelIdx' = 0
                   /\ pc' = "done"
               ELSE
                   /\ resp' = NoResp
                   /\ logged' = <<>>
                   /\ modelIdx' = 1
                   /\ pc' = "askAI"
    /\ attempts' = <<>>
    /\ lastError' = NoError
    /\ aiOutcome' = NoOutcome
    /\ UNCHANGED <<input, ret>>

Attempt(outcome, text, e) ==
    [model |-> models[modelIdx], outcome |-> outcome, text |-> text, err |-> e]

\* askAI: the attempt on models[modelIdx] returns text; askAI returns its first
\* word and the handler responds 200
AttemptReturns ==
    /\ pc = "askAI"
    /\ \E text \in Texts :
        /\ attempts' = Append(attempts, Attempt("return", text, NoError))
        /\ aiOutcome' = [kind |-> "return", v |-> firstWord(text), err |-> NoError]
        /\ resp' = [status |-> 200, body |-> successResponse(JStr(firstWord(text)))]
    /\ pc' = "done"
    /\ UNCHANGED <<req, ran, thrown, modelIdx, lastError, logged, input, ret>>

catchAttemptErr_keepFirst(prev, err) == IF prev = NoError THEN err ELSE prev

\* catch (err) { lastError = err; ... }
catchAttemptErr(prev, err) == err

\* throw lastError || new Error("All AI models failed.")
throwLastError(last) == IF last = NoError THEN AllModelsFailedError ELSE last

\* askAI: the attempt on models[modelIdx] throws (getGenerativeModel,
\* generateContent or response.text()); the loop moves to the next model, or,
\* after the last one, askAI throws and the handler responds 503
AttemptThrows(err) ==
    /\ pc = "askAI"
    /\ attempts' = Append(attempts, Attempt("throw", <<>>, err))
    /\ lastError' = catchAttemptErr(lastError, err)
    /\ IF modelIdx < Len(models) THEN
           /\ modelIdx' = modelIdx + 1
           /\ logged' = Append(logged, LogLine(models[modelIdx], err))
           /\ UNCHANGED <<resp, aiOutcome, pc>>
       ELSE
           /\ aiOutcome' = [kind |-> "throw", v |-> <<>>, err |-> throwLastError(lastError')]
           /\ resp' = catchAiErr(aiOutcome'.err)
           /\ logged' = logged \o <<LogLine(models[modelIdx], err),
                                    LogLine("AI service error:", aiOutcome'.err)>>
           /\ pc' = "done"
           /\ UNCHANGED modelIdx
    /\ UNCHANGED <<req, ran, thrown, input, ret>>

ResetCall ==
    /\ ran' = {}
    /\ thrown' = NoError
    /\ modelIdx' = 0
    /\ lastError' = NoError
    /\ attempts' = <<>>
    /\ aiOutcome' = NoOutcome
    /\ logged' = <<>>
    /\ pc' = "done"
    /\ UNCHANGED <<input, ret>>

\* app.get("/health") and app.get("/bfhl")
GetStatus(path) ==
    /\ Ready
    /\ req' = [method |-> "GET", path |-> path, body |-> JUndefined]
    /\ resp' = [status |-> 200,
                body |-> [is_success |-> TRUE, official_email |-> OFFICIAL_EMAIL]]
    /\ ResetCall

Routed(method, path) ==
    \/ method = "GET" /\ path \in {"/health", "/bfhl"}
    \/ method = "POST" /\ path = "/bfhl"

\* app.use((_req, res) => ...): every request no route matched
CatchAll(method, path) ==
    /\ Ready
    /\ ~Routed(method, path)
    /\ req' = [method |-> method, path |-> path, body |-> JUndefined]
    /\ resp' = [status |-> 404, body |-> errorResponse(MsgNotFound)]
    /\ ResetCall

\* the handler has returned: everything it held was local to the request
Return ==
    /\ pc = "done"
    /\ pc' = "idle"
    /\ req' = NoReq
    /\ resp' = NoResp
    /\ ran' = {}
    /\ thrown' = NoError
    /\ modelIdx' = 0
    /\ lastError' = NoError
    /\ attempts' = <<>>
    /\ aiOutcome' = NoOutcome
    /\ logged' = <<>>
    /\ UNCHANGED <<input, ret>>

Next ==
    \/ PostBfhl
    \/ AttemptReturns
    \/ \E err \in ServiceErrors : AttemptThrows(err)
    \/ \E path \in {"/health", "/bfhl"} : GetStatus(path)
    \/ \E method \in {"GET", "POST"}, path \in {"/health", "/bfhl", "/", "/unknown"} :
           CatchAll(method, path)
    \/ Return

Spec == Init /\ [][Next]_vars

(***************************************************************************)
(* Properties of the handlers (checked under Spec).                        *)
(***************************************************************************)
Responded == resp.status # 0
IsPostBfhl == req.method = "POST" /\ req.path = "/bfhl"
IsCatchAll == req.method # "none" /\ ~Routed(req.method, req.path)
HasError(msg) == "error" \in DOMAIN resp.body /\ resp.body.error = msg

\* the recognized keys that are direct properties of the body
RecognizedIn(body) == {k \in RecognizedKeys : k \in DOMAIN body.v}

\* C1: a POST /bfhl request whose body is a JSON object with 0 or with 2 or
\* more recognized keys, whatever unrecognized keys it also carries, gets status
\* 400 with the 'exactly one of' error, and no validator and no operation runs.
C1_KeyCountRejected ==
    (Responded /\ IsPostBfhl /\ req.body.t = "obj"
        /\ Cardinality(RecognizedIn(req.body)) # 1) =>
            /\ resp.status = 400
            /\ HasError(MsgExactlyOne)
            /\ ran = {}

\* what the code does satisfy: C1 for the bodies without an own property
\* named hasOwnProperty; with one, the response is 500 whatever the keys
KeyCountRejectedUnlessShadowed ==
    (Responded /\ IsPostBfhl /\ req.body.t = "obj") =>
        IF "hasOwnProperty" \in DOMAIN req.body.v
        THEN resp.status = 500 /\ HasError(MsgInternal) /\ ran = {}
        ELSE Cardinality(RecognizedIn(req.body)) # 1 =>
                 resp.status = 400 /\ HasError(MsgExactlyOne) /\ ran = {}

\* the rule of each key, as the specification's table states it
PassesRule(key, value) ==
    IF key = "fibonacci" THEN value.t = "int" /\ value.v >= 0
    ELSE IF key = "AI"
         THEN value.t = "str" /\ \E i \in 1..Len(value.v) : value.v[i] # " "
         ELSE /\ value.t = "arr"
              /\ Len(value.v) >= 1
              /\ \A i \in 1..Len(value.v) : value.v[i].t = "int"

KeyMessage(key) ==
    IF key = "fibonacci" THEN MsgFibonacci
    ELSE IF key = "prime" THEN MsgPrime
    ELSE IF key = "lcm" THEN MsgLcm
    ELSE IF key = "hcf" THEN MsgHcf
    ELSE MsgAI

OperationResult(key, value) ==
    IF key = "fibonacci" THEN JIntArr(fibonacci(value.v))
    ELSE IF key = "prime" THEN JIntArr(filterPrimes(Numbers(value)))
    ELSE IF key = "lcm" THEN JInt(lcmArray(Numbers(value)))
    ELSE JInt(hcfArray(Numbers(value)))

\* C2: a POST /bfhl request whose body is a JSON object with exactly one
\* recognized key gets status 400 with that key's message if and only if the
\* value fails the key's rule; when it passes, a fibonacci / prime / lcm / hcf
\* request gets status 200 with the operation's result as data.
C2_SingleKeyValidated ==
    (Responded /\ IsPostBfhl /\ req.body.t = "obj"
        /\ Cardinality(RecognizedIn(req.body)) = 1) =>
            LET key == CHOOSE k \in RecognizedIn(req.body) : TRUE
                value == req.body.v[key]
            IN  /\ (resp.status = 400 /\ HasError(KeyMessage(key)))
                        <=> ~PassesRule(key, value)
                /\ (PassesRule(key, value) /\ key # "AI") =>
                        /\ resp.status = 200
                        /\ "data" \in DOMAIN resp.body
                        /\ resp.body.data = OperationResult(key, value)

\* what the code does satisfy: C2 for the bodies without an own property
\* named hasOwnProperty, with the examples of the specification
SingleKeyValidatedUnlessShadowed ==
    (Responded /\ IsPostBfhl /\ req.body.t = "obj"
        /\ "hasOwnProperty" \notin DOMAIN req.body.v
        /\ Cardinality(RecognizedIn(req.body)) = 1) =>
            LET key == CHOOSE k \in RecognizedIn(req.body) : TRUE
                value == req.body.v[key]
                Data(d) == resp.status = 200 /\ resp.body.data = d
            IN  /\ (resp.status = 400 /\ HasError(KeyMessage(key)))
                        <=> ~PassesRule(key, value)
                /\ (PassesRule(key, value) /\ key # "AI") =>
                        /\ resp.status = 200
                        /\ "data" \in DOMAIN resp.body
                        /\ resp.body.data = OperationResult(key, value)
                /\ (key = "fibonacci" /\ value = JInt(-1)) => resp.status = 400
                /\ (key = "fibonacci" /\ value = JInt(0)) => Data(JArr(<<>>))
                /\ (key = "fibonacci" /\ value = JInt(1)) => Data(JIntArr(<<0>>))
                /\ (key = "fibonacci" /\ value = JInt(5)) =>
                        Data(JIntArr(<<0, 1, 1, 2, 3>>))
                /\ (key = "lcm" /\ value = JIntArr(<<4, 6>>)) => Data(JInt(12))

EnvelopeFields == {"is_success", "official_email", "data", "error"}

\* C3: every response of the POST /bfhl handler and of the catch-all handler
\* carries is_success and the constant official_email and exactly one of data
\* and error; is_success is true exactly when the status is 200 and the field
\* is data, and false with an error for 400, 404, 500 and 503.
C3_Envelope ==
    (Responded /\ (IsPostBfhl \/ IsCatchAll)) =>
        LET b == resp.body
        IN  /\ DOMAIN b \subseteq EnvelopeFields
            /\ {"is_success", "official_email"} \subseteq DOMAIN b
            /\ b.official_email = OFFICIAL_EMAIL
            /\ ("data" \in DOMAIN b) # ("error" \in DOMAIN b)
            /\ b.is_success <=> (resp.status = 200 /\ "data" \in DOMAIN b)
            /\ resp.status \in {200, 400, 404, 500, 503}
            /\ resp.status # 200 => (~b.is_success /\ "error" \in DOMAIN b)
            /\ IsCatchAll => resp.status = 404

C3_Witness ==
    /\ IsPostBfhl
    /\ resp.status = 200
    /\ aiOutcome.kind = "return"
    /\ resp.body.is_success
    /\ resp.body.data = JStr(<<"a", "1">>)

\* the first whitespace-delimited token of text, without its characters
\* that are not alphanumeric
FirstToken(text) ==
    LET inWord == {i \in 1..Len(text) : text[i] # " "}
    IN  IF inWord = {} THEN <<>>
        ELSE LET first == CHOOSE i \in inWord : \A j \in inWord : i <= j
                 last == CHOOSE i \in first..Len(text) :
                             /\ \A j \in first..i : j \in inWord
                             /\ (i + 1) \notin inWord
             IN  SelectSeq(SubSeq(text, first, last), LAMBDA c : c \in {"a", "1"})

AllThrew(n) == \A i \in 1..n : attempts[i].outcome = "throw"

\* C4: askAI attempts the three models in list order, one at a time: an
\* attempt is made only after every earlier one has thrown, none after one has
\* succeeded, at most three in all; askAI returns the first successful response's
\* first token, stripped of non-alphanumerics, and throws only when all three
\* attempts threw, and then throws the error of the last attempt.
C4_AskAIOrder ==
    LET n == Len(attempts)
    IN  /\ n <= 3
        /\ \A i \in 1..n : attempts[i].model = models[i]
        /\ AllThrew(n - 1)
        /\ pc = "askAI" =>
               /\ aiOutcome.kind = "none"
               /\ AllThrew(n)
               /\ n < 3
               /\ modelIdx = n + 1
        /\ aiOutcome.kind = "return" =>
               /\ n >= 1
               /\ attempts[n].outcome = "return"
               /\ aiOutcome.v = FirstToken(attempts[n].text)
               /\ resp.status = 200
               /\ resp.body.data = JStr(aiOutcome.v)
        /\ aiOutcome.kind = "throw" =>
               /\ n = 3
               /\ AllThrew(3)
               /\ aiOutcome.err = attempts[3].err
        /\ (pc = "done" /\ "askAI" \in ran) => aiOutcome.kind \in {"return", "throw"}

C4_Witness ==
    /\ aiOutcome.kind = "throw"
    /\ Len(attempts) = 3
    /\ attempts[1].err # attempts[3].err
    /\ aiOutcome.err = attempts[3].err

C4_WitnessFallback ==
    /\ aiOutcome.kind = "return"
    /\ Len(attempts) = 3
    /\ attempts[3].text = <<" ", "a", "?">>
    /\ aiOutcome.v = <<"a">>

FixedMessages ==
    {MsgBody, MsgExactlyOne, MsgFibonacci, MsgPrime, MsgLcm, MsgHcf, MsgAI,
     MsgAIUnavailable, MsgInternal, MsgNotFound}

\* the messages of the exceptions raised while the request was handled
RaisedMessages ==
    {attempts[i].err.message : i \in {j \in 1..Len(attempts) : attempts[j].outcome = "throw"}}
    \cup (IF thrown = NoError THEN {} ELSE {thrown.message})
    \cup (IF aiOutcome.kind = "throw" THEN {aiOutcome.err.message} ELSE {})

\* C5: a valid AI request whose askAI call fails gets status 503, never 500,
\* with the fixed 'AI service is temporarily unavailable' message; any other
\* exception raised while handling POST /bfhl gets status 500 with the fixed
\* 'Internal server error.' message; no response carries the text of an
\* exception, and every error message is one of the fixed messages.
C5_GenericFailures ==
    (Responded /\ IsPostBfhl) =>
        /\ aiOutcome.kind = "throw" =>
               resp.status = 503 /\ HasError(MsgAIUnavailable)
        /\ thrown # NoError => resp.status = 500 /\ HasError(MsgInternal)
        /\ resp.status = 503 => aiOutcome.kind = "throw"
        /\ resp.status = 500 => thrown # NoError
        /\ "error" \in DOMAIN resp.body =>
               /\ resp.body.error \in FixedMessages
               /\ resp.body.error \notin RaisedMessages

C5_Witness ==
    /\ IsPostBfhl
    /\ resp.status = 503
    /\ aiOutcome.kind = "throw"
    /\ aiOutcome.err.message = "fetch failed"
    /\ HasError(MsgAIUnavailable)

C5_WitnessInternal ==
    /\ IsPostBfhl
    /\ resp.status = 500
    /\ thrown = HasOwnPropertyTypeError
    /\ HasError(MsgInternal)

(***************************************************************************)
(* Properties of the operation library (checked under OpsSpec).            *)
(***************************************************************************)

\* C6: for every n >= 0, fibonacci(n) has exactly n elements, starts 0 (n >= 1)
\* then 1 (n >= 2), and every element from the third on is the sum of the two
\* elements before it.
C6_FibonacciShape ==
    (ret.fn = "fibonacci" /\ input.n >= 0) =>
        LET s == ret.v
        IN  /\ Len(s) = input.n
            /\ (input.n >= 1 => s[1] = 0)
            /\ (input.n >= 2 => s[2] = 1)
            /\ \A i \in 3..Len(s) : s[i] = s[i - 1] + s[i - 2]

C6_Witness ==
    /\ ret.fn = "fibonacci"
    /\ input.n = 5
    /\ ret.v = <<0, 1, 1, 2, 3>>

\* x is prime: x >= 2 and no d with 2 <= d and d*d <= x divides x
IsPrimeNumber(x) ==
    /\ x >= 2
    /\ \A d \in 2..x : d * d <= x => x % d # 0

\* C7: filterPrimes(xs) is exactly the subsequence of xs, in order and with
\* multiplicity, of the elements that are prime (>= 2, no divisor d with
\* 2 <= d and d*d <= element); negatives, 0 and 1 are never kept.
C7_FilterPrimesExact ==
    ret.fn = "filterPrimes" => ret.v = SelectSeq(input.xs, IsPrimeNumber)

C7_Witness ==
    /\ ret.fn = "filterPrimes"
    /\ input.xs = <<1, 2, 3, 4, 5, 6>>
    /\ ret.v = <<2, 3, 5>>

C7_WitnessOddComposite ==
    /\ ret.fn = "filterPrimes"
    /\ input.xs = <<25>>
    /\ ret.v = <<>>

\* C8: for nonzero a and b of either sign, lcmArray([a,b]) * hcfArray([a,b])
\* equals |a*b|.
C8_LcmTimesHcf ==
    (input.k = "xs" /\ Len(input.xs) = 2 /\ input.xs[1] # 0 /\ input.xs[2] # 0) =>
        LET ab == Abs(input.xs[1] * input.xs[2])
        IN  /\ ret.fn = "lcmArray" => ret.v * hcfArray(input.xs) = ab
            /\ ret.fn = "hcfArray" => lcmArray(input.xs) * ret.v = ab

C8_Witness ==
    /\ ret.fn = "lcmArray"
    /\ input.xs = <<-4, 3>>
    /\ ret.v = 12
    /\ hcfArray(input.xs) = 1

\* the reorderings of xs
Reorderings(xs) ==
    {[i \in 1..Len(xs) |-> xs[p[i]]] : p \in Permutations(1..Len(xs))}

HasZero(xs) == \E i \in 1..Len(xs) : xs[i] = 0

\* C9: for every non-empty xs and every permutation ys of xs, hcfArray(ys) =
\* hcfArray(xs), and, when xs has no zero, lcmArray(ys) = lcmArray(xs).
C9_OrderIndependent ==
    (input.k = "xs" /\ Len(input.xs) >= 1) =>
        \A ys \in Reorderings(input.xs) :
            /\ ret.fn = "hcfArray" => hcfArray(ys) = ret.v
            /\ (ret.fn = "lcmArray" /\ ~HasZero(input.xs)) => lcmArray(ys) = ret.v

C9_Witness ==
    /\ ret.fn = "lcmArray"
    /\ input.xs = <<-2, 3, 4>>
    /\ ret.v = 12
    /\ lcmArray(<<4, 3, -2>>) = 12

\* the greatest common divisor of |x1|, ..., |xn| (0 when every element is 0)
GcdOfAbs(xs) ==
    LET top == LET m == CHOOSE i \in 1..Len(xs) :
                            \A j \in 1..Len(xs) : Abs(xs[j]) <= Abs(xs[i])
               IN  Abs(xs[m])
        Common(d) == \A i \in 1..Len(xs) : Abs(xs[i]) % d = 0
    IN  IF top = 0 THEN 0
        ELSE CHOOSE d \in 1..top : Common(d) /\ \A e \in 1..top : Common(e) => e <= d

AbsSeq(xs) == [i \in 1..Len(xs) |-> Abs(xs[i])]

\* C10: for every non-empty xs (length 1 and negative elements included),
\* hcfArray(xs) is >= 0, equals gcd(|x1|, ..., |xn|), and is the same for xs
\* and for the sequence of its absolute values.
C10_HcfIsNonNegativeGcd ==
    ret.fn = "hcfArray" =>
        /\ ret.v >= 0
        /\ ret.v = GcdOfAbs(input.xs)
        /\ ret.v = hcfArray(AbsSeq(input.xs))

\* what the code does satisfy: the statement of C10 on arrays of two or more
\* elements, and |hcfArray(xs)| on every array
HcfIsGcdUpToSign ==
    ret.fn = "hcfArray" =>
        /\ Abs(ret.v) = GcdOfAbs(input.xs)
        /\ (Len(input.xs) >= 2 => ret.v >= 0)
        /\ (Len(input.xs) = 1 => ret.v = input.xs[1])

=============================================================================
